---- MODULE Spec2Model ----
(***************************************************************************)
(* A model of the Buzzdata API client (buzzdata.py).                       *)
(*                                                                         *)
(* The client holds no state besides its configuration (api_url and the    *)
(* session's parameters).  Every facade method is a function of its        *)
(* arguments and of the responses the transport gives; its effects are the *)
(* requests it sends and the value it returns or the exception it raises.  *)
(* A method is modelled as an operator that yields a completion record     *)
(*     [exc, val, sent]                                                    *)
(* (exc = "none" for a normal return), and as an action that draws the     *)
(* arguments and the transport's responses from small sets, appends the    *)
(* requests to the transport log and records the call in last.             *)
(*                                                                         *)
(* Python values: None is the record None; a decoded JSON container is     *)
(* tagged ([t |-> "dict", v |-> f], [t |-> "list", v |-> s]); a keyword    *)
(* dictionary is a function on strings; a tuple is a sequence; a string    *)
(* built by the % operator is the sequence of its pieces.                  *)
(***************************************************************************)
EXTENDS Integers, Sequences, FiniteSets, TLC

VARIABLES self, log, last, budget

vars == <<self, log, last, budget>>

-----------------------------------------------------------------------------
(* Bounds of the model                                                     *)

\* facade calls a caller makes in one run of Spec
MaxCalls == 1
\* facade calls a caller makes in one run of SpecStaging
MaxStagingCalls == 4

-----------------------------------------------------------------------------
(* Python values                                                           *)

None == [t |-> "None"]

EmptyDict == [k \in {} |-> ""]

Dict(f) == [t |-> "dict", v |-> f]

List(s) == [t |-> "list", v |-> s]

\* bool(x) of a decoded JSON value
Truthy(j) ==
    CASE j.t = "None" -> FALSE
      [] j.t = "dict" -> DOMAIN j.v # {}
      [] j.t = "list" -> Len(j.v) > 0

Return(v, sent) == [exc |-> "none", val |-> v, sent |-> sent]

Raise(e, v, sent) == [exc |-> e, val |-> v, sent |-> sent]

\* j[key] for a string key: a dict looks the key up, None and a list
\* cannot be indexed by a string
GetItem(j, key) ==
    IF j.t = "dict"
      THEN IF key \in DOMAIN j.v
             THEN Return(j.v[key], <<>>)
             ELSE Raise("KeyError", key, <<>>)
      ELSE Raise("TypeError", None, <<>>)

Digit == <<"0", "1", "2", "3", "4", "5", "6", "7", "8", "9">>

\* "%d" % n
RECURSIVE Decimal(_)
Decimal(n) ==
    IF n < 0 THEN "-" \o Decimal(0 - n)
    ELSE IF n < 10 THEN Digit[n + 1]
    ELSE Decimal(n \div 10) \o Digit[(n % 10) + 1]

\* template % args: every placeholder of the template takes the next argument
RECURSIVE Format(_, _)
Format(template, args) ==
    IF template = <<>> THEN <<>>
    ELSE IF Head(template) = "%s"
      THEN <<Head(args)>> \o Format(Tail(template), Tail(args))
    ELSE IF Head(template) = "%d"
      THEN <<Decimal(Head(args))>> \o Format(Tail(template), Tail(args))
    ELSE <<Head(template)>> \o Format(Tail(template), args)

LowerCase == <<"a", "b", "c", "d", "e", "f", "g", "h", "i", "j", "k", "l", "m",
               "n", "o", "p", "q", "r", "s", "t", "u", "v", "w", "x", "y", "z">>

UpperCase == <<"A", "B", "C", "D", "E", "F", "G", "H", "I", "J", "K", "L", "M",
               "N", "O", "P", "Q", "R", "S", "T", "U", "V", "W", "X", "Y", "Z">>

UpperChar(c) ==
    IF \E i \in DOMAIN LowerCase : LowerCase[i] = c
      THEN UpperCase[CHOOSE i \in DOMAIN LowerCase : LowerCase[i] = c]
      ELSE c

\* a validation that forgets to normalise the case
UpperForgotten(s) == s

\* str.upper(), a string being the sequence of its characters
Upper(s) == [i \in DOMAIN s |-> UpperChar(s[i])]

\* json.dumps of a dict of integers; the dicts of the model have at most one key
JsonDumpsDict(d) ==
    IF DOMAIN d = {} THEN "{}"
    ELSE LET k == CHOOSE x \in DOMAIN d : TRUE
         IN  "{\"" \o k \o "\": " \o Decimal(d[k]) \o "}"

RECURSIVE JsonDumpsItems(_)
JsonDumpsItems(s) ==
    IF Len(s) = 1 THEN JsonDumpsDict(s[1])
    ELSE JsonDumpsDict(s[1]) \o ", " \o JsonDumpsItems(Tail(s))

\* json.dumps of a list of dicts
JsonDumpsList(s) == IF s = <<>> THEN "[]" ELSE "[" \o JsonDumpsItems(s) \o "]"

-----------------------------------------------------------------------------
(* The caller's inputs                                                     *)

BaseUrls == {"https://buzzdata.com"}

AccessTokens == {None, [t |-> "str", v |-> "token"]}

Usernames == {"bob"}

Queries == {"q1", "q2"}

DataroomIds == {"d1", "d2"}

DatafileIds == {<<"d1", "u1">>}

StageIds == {<<"d1", "u1", "s1">>}

RowNumbers == {0}

RowLists == {<<>>, <<[a |-> 1]>>}

RowValues == {[a |-> 2]}

VisualizationIds == {<<"d1", "/visualizations/", "v1">>}

CSV == <<"C", "S", "V">>

XLS == <<"X", "L", "S">>

XLSX == <<"X", "L", "S", "X">>

Types == {CSV, XLS, XLSX,
          <<"c", "s", "v">>, <<"C", "s", "v">>, <<"x", "l", "s">>,
          <<"x", "L", "s", "X">>, <<"x", "l", "s", "x">>,
          <<"P", "D", "F">>, <<"c", "s">>, <<"c", "s", "v", "x">>, <<>>}

-----------------------------------------------------------------------------
(* The transport's responses: status code, body text, decoded JSON         *)

Statuses == {200, 400, 401, 500}

NoBody == [text |-> "", json |-> None]

PlainText == [text |-> "Internal Server Error", json |-> None]

EmptyObject == [text |-> "{}", json |-> Dict(EmptyDict)]

MessageObject == [text |-> "{\"message\": \"not found\"}",
                  json |-> Dict([message |-> "not found"])]

OtherObject == [text |-> "{\"error\": \"x\"}", json |-> Dict([error |-> "x"])]

Ticket == [url |-> <<"https://upload.example.com/put">>, key |-> "k1", policy |-> "p1"]

TicketWithoutUrl == [key |-> "k1"]

DownloadUrl == <<"https://download.example.com/get">>

\* the bodies a well-behaved server answers the operation with
GoodBodies(op) ==
    CASE op = "user_info" ->
           {[text |-> "{\"user\": ...}", json |-> Dict([user |-> [username |-> "bob"]])]}
      [] op \in {"create_dataroom", "dataroom_overview"} ->
           {[text |-> "{\"dataset\": ...}", json |-> Dict([dataset |-> [id |-> "d1"]])]}
      [] op = "list_visualizations" ->
           {[text |-> "[{\"uuid\": ...}, ...]",
             json |-> List(<<[uuid |-> "v1", title |-> "t1"], [uuid |-> "v2", id |-> "x"]>>)],
            [text |-> "[{\"title\": ...}]", json |-> List(<<[title |-> "t1"]>>)]}
      [] op = "create_datafile" ->
           {[text |-> "{\"datafile_uuid\": ...}", json |-> Dict([datafile_uuid |-> "u2"])]}
      [] op = "new_upload_request" ->
           {[text |-> "{\"upload_request\": ...}", json |-> Dict([upload_request |-> Dict(Ticket)])],
            [text |-> "{\"upload_request\": {\"key\": ...}}",
             json |-> Dict([upload_request |-> Dict(TicketWithoutUrl)])]}
      [] op = "get_download_url" ->
           {[text |-> "{\"download_request\": ...}",
             json |-> Dict([download_request |-> Dict([url |-> DownloadUrl])])]}
      [] op = "create_stage" ->
           {[text |-> "{\"id\": ...}", json |-> Dict([id |-> "s2"])]}
      [] OTHER ->
           {[text |-> "[...]", json |-> List(<<[name |-> "n1"]>>)]}

Bodies(op) == {NoBody, PlainText, EmptyObject, MessageObject, OtherObject} \cup GoodBodies(op)

Response(status, body) == [status_code |-> status, text |-> body.text, json |-> body.json]

Responses(op) == {Response(s, b) : s \in Statuses, b \in Bodies(op)}

-----------------------------------------------------------------------------
(* Buzzdata.Error and the private transport helpers                        *)

\* Buzzdata.Error.__init__: the constructed error, or the exception the
\* constructor itself raises
Error(response) ==
    IF Truthy(response.json)
      THEN LET m == GetItem(response.json, "message")
           IN  IF m.exc = "none"
                 THEN Return([code |-> response.status_code, message |-> m.val], <<>>)
                 ELSE m
      ELSE Return([code |-> response.status_code, message |-> response.text], <<>>)

\* a request sent through the session: the session adds its own parameters
SessionRequest(method, url, data, files) ==
    [via |-> "session", method |-> method, url |-> url,
     params |-> self.client.params, data |-> data, files |-> files]

\* requests.post / requests.get called directly
DirectRequest(method, url, data, files) ==
    [via |-> "direct", method |-> method, url |-> url,
     params |-> None, data |-> data, files |-> files]

_request(method, path, params, data, files, response) ==
    LET req == SessionRequest(method, <<self.api_url, "/">> \o path, data, files)
    IN  IF response.status_code > 400
          THEN LET e == Error(response)
               IN  IF e.exc = "none"
                     THEN Raise("Error", e.val, <<req>>)
                     ELSE Raise(e.exc, e.val, <<req>>)
          ELSE Return(response.json, <<req>>)

_get(path, params, response) == _request("GET", path, params, None, None, response)

_delete(path, params, response) == _request("DELETE", path, params, None, None, response)

_put(path, data, response) == _request("PUT", path, EmptyDict, data, None, response)

_post(path, files, data, response) == _request("POST", path, EmptyDict, data, files, response)

\* form(formname, **fields)
form(formname, fields) ==
    LET key(f) == formname \o "[" \o f \o "]"
    IN  [k \in {key(f) : f \in DOMAIN fields} |->
            fields[CHOOSE f \in DOMAIN fields : key(f) = k]]

\* c[key] where c is the completion of the call that yields the container
Subscript(c, key) ==
    IF c.exc # "none" THEN c
    ELSE LET g == GetItem(c.val, key)
         IN  [g EXCEPT !.sent = c.sent]

-----------------------------------------------------------------------------
(* The facade methods: the completion of a call, given its arguments and   *)
(* the responses the transport gives to the requests it sends              *)

\* Buzzdata.__init__: the client's configuration
Buzzdata(access_token, base_url) ==
    [api_url |-> base_url \o "/api",
     client  |-> [params |-> IF access_token = None
                               THEN None
                               ELSE [access_token |-> access_token.v]]]

licenses_(response) == _get(<<"licenses">>, EmptyDict, response)

topics_(response) == _get(<<"topics">>, EmptyDict, response)

search_(query, response) == _get(<<"search">>, [term |-> query], response)

user_info_(username, response) ==
    Subscript(_get(<<username>>, EmptyDict, response), "user")

create_user_(username, email, password, response) ==
    _post(<<"users">>, None,
          form("user", [username |-> username, email |-> email, password |-> password]),
          response)

list_datarooms_(username, response) ==
    _get(Format(<<"%s", "/datasets/list">>, <<username>>), EmptyDict, response)

create_dataroom_(username, name, readme, license, topics, public, response) ==
    Subscript(_post(Format(<<"%s", "/datasets">>, <<username>>), None,
                    form("dataset", [name |-> name, readme |-> readme,
                                     license |-> license, topics |-> topics,
                                     public |-> public]),
                    response),
              "dataset")

dataroom_overview_(dataroom_id, response) ==
    Subscript(_get(<<dataroom_id>>, EmptyDict, response), "dataset")

delete_dataroom_(dataroom_id, response) == _delete(<<dataroom_id>>, EmptyDict, response)

\* dict(vis, id=...) for every vis of the iterated result, in order
RECURSIVE WithIds(_, _)
WithIds(dataroom_id, items) ==
    IF items = <<>> THEN Return(<<>>, <<>>)
    ELSE LET vis == Head(items)
         IN  IF "uuid" \notin DOMAIN vis THEN Raise("KeyError", "uuid", <<>>)
             ELSE LET id   == Format(<<"%s", "/visualizations/", "%s">>,
                                     <<dataroom_id, vis["uuid"]>>)
                      rest == WithIds(dataroom_id, Tail(items))
                  IN  IF rest.exc # "none" THEN rest
                      ELSE Return(<<[k \in DOMAIN vis \cup {"id"} |->
                                        IF k = "id" THEN id ELSE vis[k]]>> \o rest.val,
                                  <<>>)

list_visualizations_(dataroom_id, response) ==
    LET r == _get(Format(<<"%s", "/visualizations">>, <<dataroom_id>>), EmptyDict, response)
    IN  IF r.exc # "none" THEN r
        ELSE CASE r.val.t = "None" -> Raise("TypeError", None, r.sent)
               \* iterating a dict yields its keys, and a string has no ['uuid']
               [] r.val.t = "dict" -> IF DOMAIN r.val.v = {}
                                        THEN Return(<<>>, r.sent)
                                        ELSE Raise("TypeError", None, r.sent)
               [] r.val.t = "list" -> [WithIds(dataroom_id, r.val.v) EXCEPT !.sent = r.sent]

create_visualization_from_url_(dataroom_id, url, title, response) ==
    _post(Format(<<"%s", "/visualizations/url">>, <<dataroom_id>>), None,
          [url |-> url, title |-> title], response)

create_visualization_from_image_(dataroom_id, image_file, file_name, title, response) ==
    _post(Format(<<"%s", "/visualizations/image">>, <<dataroom_id>>),
          [image |-> <<file_name, image_file>>],
          [title |-> title], response)

delete_visualization_(visualization_id, response) ==
    _delete(visualization_id, EmptyDict, response)

list_datafiles_(dataroom_id, response) ==
    _get(Format(<<"%s", "/list_datafiles">>, <<dataroom_id>>), EmptyDict, response)

\* the compound identifier with its components exchanged
create_datafile_swapped(dataroom_id, datafile_name, response) ==
    LET result == Subscript(_post(Format(<<"%s", "/create_datafile">>, <<dataroom_id>>),
                                  None, [data_file_name |-> datafile_name], response),
                            "datafile_uuid")
    IN  IF result.exc # "none" THEN result
        ELSE Return(<<result.val, dataroom_id>>, result.sent)

create_datafile_(dataroom_id, datafile_name, response) ==
    LET result == Subscript(_post(Format(<<"%s", "/create_datafile">>, <<dataroom_id>>),
                                  None, [data_file_name |-> datafile_name], response),
                            "datafile_uuid")
    IN  IF result.exc # "none" THEN result
        ELSE Return(<<dataroom_id, result.val>>, result.sent)

datafile_history_(datafile_id, response) ==
    _get(Format(<<"data_files/", "%s", "/history">>, <<datafile_id[2]>>), EmptyDict, response)

new_upload_request_(datafile_id, response) ==
    Subscript(_post(Format(<<"%s", "/upload_request?datafile_uuid=", "%s">>, datafile_id),
                    None, EmptyDict, response),
              "upload_request")

\* the transfer posted with the whole ticket, url included
upload_datafile_keeps_url(datafile_id, file, file_name, release_notes, response, transfer) ==
    LET upload_request == new_upload_request_(datafile_id, response)
    IN  IF upload_request.exc # "none" THEN upload_request
        ELSE IF upload_request.val.t # "dict"
          THEN Raise("AttributeError", "pop", upload_request.sent)
        ELSE IF "url" \notin DOMAIN upload_request.val.v
          THEN Raise("KeyError", "url", upload_request.sent)
        ELSE LET ticket   == upload_request.val.v
                 post_url == ticket["url"]
                 data     == [k \in DOMAIN ticket \cup {"release_notes"} |->
                                IF k = "release_notes" THEN release_notes ELSE ticket[k]]
             IN  Return(transfer,
                        upload_request.sent \o
                        <<DirectRequest("POST", post_url, data,
                                        [file |-> <<file_name, file>>])>>)

upload_datafile_(datafile_id, file, file_name, release_notes, response, transfer) ==
    LET upload_request == new_upload_request_(datafile_id, response)
    IN  IF upload_request.exc # "none" THEN upload_request
        \* upload_request.pop('url')
        ELSE IF upload_request.val.t # "dict"
          THEN Raise("AttributeError", "pop", upload_request.sent)
        ELSE IF "url" \notin DOMAIN upload_request.val.v
          THEN Raise("KeyError", "url", upload_request.sent)
        ELSE LET ticket   == upload_request.val.v
                 post_url == ticket["url"]
                 data     == [k \in (DOMAIN ticket \ {"url"}) \cup {"release_notes"} |->
                                IF k = "release_notes" THEN release_notes ELSE ticket[k]]
             IN  Return(transfer,
                        upload_request.sent \o
                        <<DirectRequest("POST", post_url, data,
                                        [file |-> <<file_name, file>>])>>)

\* self.post_json: the class defines no such attribute, and the lookup fails
\* before the arguments of the call are evaluated
post_json(path, data, response) == Raise("AttributeError", "post_json", <<>>)

get_download_url_(datafile_id, version, type, response) ==
    LET type_ == Upper(type)
    IN  IF type_ \notin {CSV, XLS, XLSX}
          THEN Raise("ValueError", type_, <<>>)
          ELSE Subscript(Subscript(post_json(Format(<<"%s", "/", "%s", "/download_request">>,
                                                    datafile_id),
                                             [type |-> type_, version |-> version],
                                             response),
                                   "download_request"),
                         "url")

download_data_(datafile_id, response, transfer) ==
    LET url == get_download_url_(datafile_id, None, CSV, response)
    IN  IF url.exc # "none" THEN url
        ELSE Return(transfer, url.sent \o <<DirectRequest("GET", url.val, None, None)>>)

create_stage_(datafile_id, response) ==
    LET result == Subscript(_post(Format(<<"%s", "/", "%s", "/stage">>, datafile_id),
                                  None, EmptyDict, response),
                            "id")
    IN  IF result.exc # "none" THEN result
        ELSE Return(datafile_id \o <<result.val>>, result.sent)

\* str(rows) of a list of dicts, which quotes the keys with apostrophes
RECURSIVE ReprItems(_)
ReprItems(s) ==
    LET item(d) == IF DOMAIN d = {} THEN "{}"
                   ELSE LET k == CHOOSE x \in DOMAIN d : TRUE
                        IN  "{'" \o k \o "': " \o Decimal(d[k]) \o "}"
    IN  IF Len(s) = 1 THEN item(s[1]) ELSE item(s[1]) \o ", " \o ReprItems(Tail(s))

\* the rows sent as their Python representation instead of as JSON
insert_rows_repr(stage_id, rows, response) ==
    _post(Format(<<"%s", "/", "%s", "/stage/", "%s", "/rows">>, stage_id),
          None,
          [rows |-> IF rows = <<>> THEN "[]" ELSE "[" \o ReprItems(rows) \o "]"],
          response)

insert_rows_(stage_id, rows, response) ==
    _post(Format(<<"%s", "/", "%s", "/stage/", "%s", "/rows">>, stage_id),
          None, [rows |-> JsonDumpsList(rows)], response)

update_row_(stage_id, row_number, row, response) ==
    _put(Format(<<"%s", "/", "%s", "/stage/", "%s", "/rows/", "%d">>,
                stage_id \o <<row_number>>),
         [row |-> JsonDumpsDict(row)], response)

delete_row_(stage_id, row_number, response) ==
    _delete(Format(<<"%s", "/", "%s", "/stage/", "%s", "/rows/", "%d">>,
                   stage_id \o <<row_number>>),
            EmptyDict, response)

commit_stage_(stage_id, response) ==
    _post(Format(<<"%s", "/", "%s", "/stage/", "%s", "/commit">>, stage_id),
          None, EmptyDict, response)

rollback_stage_(stage_id, response) ==
    _post(Format(<<"%s", "/", "%s", "/stage/", "%s", "/rollback">>, stage_id),
          None, EmptyDict, response)

-----------------------------------------------------------------------------
(* The state machine: one action per facade method                         *)

NoCall == [op |-> "none", args |-> <<>>, resps |-> <<>>,
           exc |-> "none", val |-> None, sent |-> <<>>]

\* the responses of a direct transfer (requests.post, requests.get)
TransferResponses == Responses("transfer")

\* A call completes with c: its requests reach the transport in the order
\* sent, and each of them consumed one of the responses offered.
Do(op, args, resps, c) ==
    /\ budget' = budget - 1
    /\ log' = log \o c.sent
    /\ last' = [op |-> op, args |-> args, resps |-> SubSeq(resps, 1, Len(c.sent)),
                exc |-> c.exc, val |-> c.val, sent |-> c.sent]
    /\ UNCHANGED self

licenses ==
    \E r \in Responses("licenses") :
        /\ budget > 0
        /\ Do("licenses", <<>>, <<r>>, licenses_(r))

topics ==
    \E r \in Responses("topics") :
        /\ budget > 0
        /\ Do("topics", <<>>, <<r>>, topics_(r))

search ==
    \E query \in Queries, r \in Responses("search") :
        /\ budget > 0
        /\ Do("search", <<query>>, <<r>>, search_(query, r))

user_info ==
    \E username \in Usernames, r \in Responses("user_info") :
        /\ budget > 0
        /\ Do("user_info", <<username>>, <<r>>, user_info_(username, r))

create_user ==
    \E username \in Usernames, r \in Responses("create_user") :
        /\ budget > 0
        /\ Do("create_user", <<username, "bob@example.com", "secret">>, <<r>>,
              create_user_(username, "bob@example.com", "secret", r))

list_datarooms ==
    \E username \in Usernames, r \in Responses("list_datarooms") :
        /\ budget > 0
        /\ Do("list_datarooms", <<username>>, <<r>>, list_datarooms_(username, r))

create_dataroom ==
    \E username \in Usernames, r \in Responses("create_dataroom") :
        /\ budget > 0
        /\ Do("create_dataroom", <<username, "n1", "", "cc0", <<>>, FALSE>>, <<r>>,
              create_dataroom_(username, "n1", "", "cc0", <<>>, FALSE, r))

dataroom_overview ==
    \E dataroom_id \in DataroomIds, r \in Responses("dataroom_overview") :
        /\ budget > 0
        /\ Do("dataroom_overview", <<dataroom_id>>, <<r>>, dataroom_overview_(dataroom_id, r))

delete_dataroom ==
    \E dataroom_id \in DataroomIds, r \in Responses("delete_dataroom") :
        /\ budget > 0
        /\ Do("delete_dataroom", <<dataroom_id>>, <<r>>, delete_dataroom_(dataroom_id, r))

list_visualizations ==
    \E dataroom_id \in DataroomIds, r \in Responses("list_visualizations") :
        /\ budget > 0
        /\ Do("list_visualizations", <<dataroom_id>>, <<r>>,
              list_visualizations_(dataroom_id, r))

create_visualization_from_url ==
    \E dataroom_id \in DataroomIds, r \in Responses("create_visualization_from_url") :
        /\ budget > 0
        /\ Do("create_visualization_from_url", <<dataroom_id, "http://chart", "">>, <<r>>,
              create_visualization_from_url_(dataroom_id, "http://chart", "", r))

create_visualization_from_image ==
    \E dataroom_id \in DataroomIds, r \in Responses("create_visualization_from_image") :
        /\ budget > 0
        /\ Do("create_visualization_from_image", <<dataroom_id, "PNG", "chart.png", "">>, <<r>>,
              create_visualization_from_image_(dataroom_id, "PNG", "chart.png", "", r))

delete_visualization ==
    \E visualization_id \in VisualizationIds, r \in Responses("delete_visualization") :
        /\ budget > 0
        /\ Do("delete_visualization", <<visualization_id>>, <<r>>,
              delete_visualization_(visualization_id, r))

list_datafiles ==
    \E dataroom_id \in DataroomIds, r \in Responses("list_datafiles") :
        /\ budget > 0
        /\ Do("list_datafiles", <<dataroom_id>>, <<r>>, list_datafiles_(dataroom_id, r))

create_datafile ==
    \E dataroom_id \in DataroomIds, r \in Responses("create_datafile") :
        /\ budget > 0
        /\ Do("create_datafile", <<dataroom_id, "f1">>, <<r>>,
              create_datafile_(dataroom_id, "f1", r))

datafile_history ==
    \E datafile_id \in DatafileIds, r \in Responses("datafile_history") :
        /\ budget > 0
        /\ Do("datafile_history", <<datafile_id>>, <<r>>, datafile_history_(datafile_id, r))

new_upload_request ==
    \E datafile_id \in DatafileIds, r \in Responses("new_upload_request") :
        /\ budget > 0
        /\ Do("new_upload_request", <<datafile_id>>, <<r>>, new_upload_request_(datafile_id, r))

upload_datafile ==
    \E datafile_id \in DatafileIds, release_notes \in {"", "v2"},
       r \in Responses("new_upload_request"), transfer \in TransferResponses :
        /\ budget > 0
        /\ Do("upload_datafile", <<datafile_id, "a,b", "data.csv", release_notes>>,
              <<r, transfer>>,
              upload_datafile_(datafile_id, "a,b", "data.csv", release_notes, r, transfer))

get_download_url ==
    \E datafile_id \in DatafileIds, type \in Types, r \in Responses("get_download_url") :
        /\ budget > 0
        /\ Do("get_download_url", <<datafile_id, None, type>>, <<r>>,
              get_download_url_(datafile_id, None, type, r))

download_data ==
    \E datafile_id \in DatafileIds,
       r \in Responses("get_download_url"), transfer \in TransferResponses :
        /\ budget > 0
        /\ Do("download_data", <<datafile_id>>, <<r, transfer>>,
              download_data_(datafile_id, r, transfer))

create_stage ==
    \E datafile_id \in DatafileIds, r \in Responses("create_stage") :
        /\ budget > 0
        /\ Do("create_stage", <<datafile_id>>, <<r>>, create_stage_(datafile_id, r))

insert_rows ==
    \E stage_id \in StageIds, rows \in RowLists, r \in Responses("insert_rows") :
        /\ budget > 0
        /\ Do("insert_rows", <<stage_id, rows>>, <<r>>, insert_rows_(stage_id, rows, r))

update_row ==
    \E stage_id \in StageIds, row_number \in RowNumbers, row \in RowValues,
       r \in Responses("update_row") :
        /\ budget > 0
        /\ Do("update_row", <<stage_id, row_number, row>>, <<r>>,
              update_row_(stage_id, row_number, row, r))

delete_row ==
    \E stage_id \in StageIds, row_number \in RowNumbers, r \in Responses("delete_row") :
        /\ budget > 0
        /\ Do("delete_row", <<stage_id, row_number>>, <<r>>,
              delete_row_(stage_id, row_number, r))

commit_stage ==
    \E stage_id \in StageIds, r \in Responses("commit_stage") :
        /\ budget > 0
        /\ Do("commit_stage", <<stage_id>>, <<r>>, commit_stage_(stage_id, r))

rollback_stage ==
    \E stage_id \in StageIds, r \in Responses("rollback_stage") :
        /\ budget > 0
        /\ Do("rollback_stage", <<stage_id>>, <<r>>, rollback_stage_(stage_id, r))

Configs == {Buzzdata(access_token, base_url) :
                access_token \in AccessTokens, base_url \in BaseUrls}

Init ==
    /\ self \in Configs
    /\ log = <<>>
    /\ last = NoCall
    /\ budget = MaxCalls

Staging ==
    \/ create_stage
    \/ insert_rows
    \/ update_row
    \/ delete_row
    \/ commit_stage
    \/ rollback_stage

Next ==
    \/ licenses
    \/ topics
    \/ search
    \/ user_info
    \/ create_user
    \/ list_datarooms
    \/ create_dataroom
    \/ dataroom_overview
    \/ delete_dataroom
    \/ list_visualizations
    \/ create_visualization_from_url
    \/ create_visualization_from_image
    \/ delete_visualization
    \/ list_datafiles
    \/ create_datafile
    \/ datafile_history
    \/ new_upload_request
    \/ upload_datafile
    \/ get_download_url
    \/ download_data
    \/ Staging

Spec == Init /\ [][Next]_vars

\* the staged-editing workflow alone, over a longer run
InitStaging ==
    /\ self = Buzzdata([t |-> "str", v |-> "token"], "https://buzzdata.com")
    /\ log = <<>>
    /\ last = NoCall
    /\ budget = MaxStagingCalls

SpecStaging == InitStaging /\ [][Staging]_vars

-----------------------------------------------------------------------------
(* Vocabulary of the properties                                            *)

\* the methods that send exactly one request, through _get, _post, _put or _delete
RoutedOps ==
    {"licenses", "topics", "search", "user_info", "create_user", "list_datarooms",
     "create_dataroom", "dataroom_overview", "delete_dataroom", "list_visualizations",
     "create_visualization_from_url", "create_visualization_from_image",
     "delete_visualization", "list_datafiles", "create_datafile", "datafile_history",
     "new_upload_request", "create_stage", "insert_rows", "update_row", "delete_row",
     "commit_stage", "rollback_stage"}

\* the methods that hand the decoded body back as it is
PassthroughOps ==
    RoutedOps \ {"user_info", "create_dataroom", "dataroom_overview", "list_visualizations",
                 "create_datafile", "new_upload_request", "create_stage"}

ValidTypes == {CSV, XLS, XLSX}

\* s is w (an upper-case word) with any of its letters in lower case
CaseVariant(s, w) ==
    /\ Len(s) = Len(w)
    /\ \A i \in DOMAIN w :
          \/ s[i] = w[i]
          \/ \E k \in DOMAIN UpperCase : UpperCase[k] = w[i] /\ LowerCase[k] = s[i]

IsValidType(type) == \E w \in ValidTypes : CaseVariant(type, w)

\* the components of identifiers: dataroom ids, datafile uuids, stage ids, row numbers
IdAtoms ==
    DataroomIds
    \cup {id[i] : id \in DatafileIds, i \in 1..2}
    \cup {id[i] : id \in StageIds, i \in 1..3}
    \cup {Decimal(n) : n \in RowNumbers}

\* the identifier components of a request's url, in the order they appear
PathIds(req) == SelectSeq(req.url, LAMBDA tok : tok \in IdAtoms)

\* the url the staging workflow documents for a call
StagingUrl(call) ==
    LET id   == call.args[1]
        base == <<self.api_url, "/", id[1], "/", id[2]>>
    IN  CASE call.op = "create_stage"   -> base \o <<"/stage">>
          [] call.op = "insert_rows"    -> base \o <<"/stage/", id[3], "/rows">>
          [] call.op = "update_row"     -> base \o <<"/stage/", id[3], "/rows/", Decimal(call.args[2])>>
          [] call.op = "delete_row"     -> base \o <<"/stage/", id[3], "/rows/", Decimal(call.args[2])>>
          [] call.op = "commit_stage"   -> base \o <<"/stage/", id[3], "/commit">>
          [] call.op = "rollback_stage" -> base \o <<"/stage/", id[3], "/rollback">>

StagingMethod(op) ==
    CASE op = "update_row" -> "PUT"
      [] op = "delete_row" -> "DELETE"
      [] OTHER             -> "POST"

-----------------------------------------------------------------------------
(* Properties                                                              *)

\* C1: a call routed through _get, _post, _put or _delete raises the API
\* Error carrying the response's status code if and only if the status
\* exceeds 400; a passthrough call answered with 400 or less returns the
\* decoded body.
C1_ErrorIffAbove400 ==
    (last.op \in RoutedOps /\ Len(last.resps) = 1) =>
        LET r == last.resps[1]
        IN  /\ (r.status_code > 400) <=>
                  (last.exc = "Error" /\ last.val.code = r.status_code)
            /\ (last.op \in PassthroughOps /\ r.status_code <= 400) =>
                  (last.exc = "none" /\ last.val = r.json)

\* C2: when the last response a call received is 500 with the body
\* {"message": "not found"} (or the transport, which answers every request
\* so, was not asked at all), the call raises the API Error 500 "not found";
\* get_download_url with an invalid type is left out.
C2_Status500AlwaysRaises ==
    ( /\ last.op # "none"
      /\ ~(last.op = "get_download_url" /\ ~IsValidType(last.args[3]))
      /\ \/ last.resps = <<>>
         \/ last.resps[Len(last.resps)] = Response(500, MessageObject) )
    => (last.exc = "Error" /\ last.val.code = 500 /\ last.val.message = "not found")

\* C3: get_download_url raises ValueError and sends nothing when the type
\* is no case variant of CSV, XLS or XLSX, and does not raise ValueError
\* when it is one.
C3_TypeValidation ==
    [][ last'.op = "get_download_url" =>
          IF IsValidType(last'.args[3])
            THEN last'.exc # "ValueError"
            ELSE last'.exc = "ValueError" /\ last'.sent = <<>> /\ log' = log ]_vars

C3_Witness ==
    /\ last.op = "get_download_url"
    /\ last.args[3] = <<"x", "L", "s", "X">>
    /\ last.exc # "ValueError"

\* C4: get_download_url with a valid type sends exactly one POST to
\* <dataroom_id>/<datafile_uuid>/download_request through the session, and
\* download_data sends that POST before its direct GET.
C4_DownloadRequestPosted ==
    /\ (last.op = "get_download_url" /\ IsValidType(last.args[3])) =>
          /\ Len(last.sent) = 1
          /\ last.sent[1].via = "session"
          /\ last.sent[1].method = "POST"
          /\ last.sent[1].url = <<self.api_url, "/", last.args[1][1], "/", last.args[1][2],
                                  "/download_request">>
    /\ last.op = "download_data" =>
          /\ Len(last.sent) >= 1
          /\ last.sent[1].via = "session"
          /\ last.sent[1].method = "POST"

\* C5: upload_datafile first POSTs the upload request through the session;
\* the direct POST follows only when that call returned a ticket, goes to
\* the ticket's url with the ticket's other fields plus release_notes as
\* form data and one file part named file, and is not sent when the first
\* response is an error; a direct POST in the log always follows a session
\* POST.
C5_UploadTwoPhase ==
    /\ last.op = "upload_datafile" =>
          LET id    == last.args[1]
              notes == last.args[4]
              first == last.resps[1]
          IN  /\ Len(last.sent) \in {1, 2}
              /\ last.sent[1].via = "session"
              /\ last.sent[1].method = "POST"
              /\ last.sent[1].url =
                    <<self.api_url, "/", id[1], "/upload_request?datafile_uuid=", id[2]>>
              /\ first.status_code > 400 => Len(last.sent) = 1
              /\ last.exc = "none" => Len(last.sent) = 2
              /\ Len(last.sent) = 2 =>
                    /\ first.status_code <= 400
                    /\ first.json.t = "dict"
                    /\ "upload_request" \in DOMAIN first.json.v
                    /\ LET ticket   == first.json.v["upload_request"].v
                           transfer == last.sent[2]
                       IN  /\ transfer.via = "direct"
                           /\ transfer.method = "POST"
                           /\ transfer.url = ticket["url"]
                           /\ DOMAIN transfer.data =
                                 (DOMAIN ticket \ {"url"}) \cup {"release_notes"}
                           /\ \A k \in DOMAIN ticket \ {"url", "release_notes"} :
                                 transfer.data[k] = ticket[k]
                           /\ transfer.data["release_notes"] = notes
                           /\ DOMAIN transfer.files = {"file"}
    /\ \A i \in DOMAIN log :
          (log[i].via = "direct" /\ log[i].method = "POST") =>
              /\ i > 1
              /\ log[i - 1].via = "session"
              /\ log[i - 1].method = "POST"

C5_Witness ==
    /\ last.op = "upload_datafile"
    /\ last.args[4] = "v2"
    /\ last.exc = "none"
    /\ Len(last.sent) = 2
    /\ last.sent[2].via = "direct"

\* C6: every call of the staging workflow adds exactly one request to the
\* end of the transport's log, the request of that call; insert_rows and
\* update_row send their payload JSON-serialized in the single form field
\* rows, respectively row; nothing else ever adds a request.
C6_StagingWorkflow ==
    [][ LET call == last'
        IN  /\ Len(log') = Len(log) + 1
            /\ SubSeq(log', 1, Len(log)) = log
            /\ LET req == log'[Len(log')]
               IN  /\ req.via = "session"
                   /\ req.method = StagingMethod(call.op)
                   /\ req.url = StagingUrl(call)
                   /\ call.op = "insert_rows" =>
                         /\ DOMAIN req.data = {"rows"}
                         /\ req.data["rows"] = JsonDumpsList(call.args[2])
                   /\ call.op = "update_row" =>
                         /\ DOMAIN req.data = {"row"}
                         /\ req.data["row"] = JsonDumpsDict(call.args[3]) ]_vars

C6_Witness ==
    /\ Len(log) = 4
    /\ last.op = "commit_stage"
    /\ last.exc = "none"
    /\ log[1].method = "POST"
    /\ log[1].url = <<"https://buzzdata.com/api", "/", "d1", "/", "u1", "/stage">>
    /\ log[2].method = "POST"
    /\ log[2].url = <<"https://buzzdata.com/api", "/", "d1", "/", "u1", "/stage/", "s1", "/rows">>
    /\ log[2].data["rows"] = "[{\"a\": 1}]"
    /\ log[3].method = "PUT"
    /\ log[3].url = <<"https://buzzdata.com/api", "/", "d1", "/", "u1", "/stage/", "s1",
                      "/rows/", "0">>
    /\ log[3].data["row"] = "{\"a\": 2}"
    /\ log[4].method = "POST"
    /\ log[4].url = <<"https://buzzdata.com/api", "/", "d1", "/", "u1", "/stage/", "s1",
                      "/commit">>

\* C7: when the response of a routed call has a status above 400, the call
\* raises the API Error, whatever the body; its message is the message
\* field of a JSON body that has one, and the raw body text when the body
\* is not JSON.
C7_ErrorMessageSource ==
    (last.op \in RoutedOps /\ Len(last.resps) = 1 /\ last.resps[1].status_code > 400) =>
        LET r == last.resps[1]
        IN  /\ last.exc = "Error"
            /\ r.json.t = "None" => last.val.message = r.text
            /\ (r.json.t = "dict" /\ "message" \in DOMAIN r.json.v) =>
                  last.val.message = r.json.v["message"]

\* C8: create_datafile returns (dataroom_id, uuid of the response),
\* create_stage returns the datafile id extended by the stage id of the
\* response, and the identifier components of every request path are the
\* dataroom id, the datafile uuid, the stage id and the row number, in that
\* order.
C8_CompoundIdOrder ==
    /\ (last.op = "create_datafile" /\ last.exc = "none") =>
          last.val = <<last.args[1], last.resps[1].json.v["datafile_uuid"]>>
    /\ (last.op = "create_stage" /\ last.exc = "none") =>
          last.val = <<last.args[1][1], last.args[1][2], last.resps[1].json.v["id"]>>
    /\ last.op \in {"new_upload_request", "upload_datafile", "create_stage"} =>
          PathIds(last.sent[1]) = last.args[1]
    /\ last.op = "datafile_history" =>
          PathIds(last.sent[1]) = <<last.args[1][2]>>
    /\ last.op \in {"insert_rows", "commit_stage", "rollback_stage"} =>
          PathIds(last.sent[1]) = last.args[1]
    /\ last.op \in {"update_row", "delete_row"} =>
          PathIds(last.sent[1]) = last.args[1] \o <<Decimal(last.args[2])>>

C8_Witness ==
    /\ last.op = "create_datafile"
    /\ last.args[1] = "d2"
    /\ last.exc = "none"
    /\ last.val = <<"d2", "u2">>

\* C9: a routed call whose response has a status of 400 or less and no
\* JSON body returns instead of failing.
C9_NoJsonBodyReturns ==
    ( /\ last.op \in RoutedOps
      /\ Len(last.resps) = 1
      /\ last.resps[1].status_code <= 400
      /\ last.resps[1].json = None )
    => last.exc = "none"

\* C10: the GET that search(query) sends carries the query as the
\* parameter term.
C10_SearchCarriesTerm ==
    last.op = "search" =>
        /\ Len(last.sent) = 1
        /\ "term" \in DOMAIN last.sent[1].params
        /\ last.sent[1].params["term"] = last.args[1]

====
